---- MODULE Spec2Model ----
(***************************************************************************)
(* A model of bevy_render's image asset loader                             *)
(* (crates/bevy_render/src/texture/image_loader.rs): the compile-time      *)
(* extension tables, the construction of the loader from a world, and the  *)
(* asynchronous load operation, which is suspended only while the reader   *)
(* is read to its end.                                                     *)
(***************************************************************************)
EXTENDS FiniteSets, Integers, Sequences, TLC

VARIABLES
    features,   \* the cargo features this build was compiled with
    world,      \* the resources of the World handed to from_world
    loader,     \* Option<ImageLoader>: what from_world returned last
    constructed, \* how many times from_world has been called
    hints,      \* the asset server's log of register_extension_hint calls
    reported,   \* Option<&[&str]>: what extensions() returned last
    loads       \* the load futures the host drives, by index

vars == <<features, world, loader, constructed, hints, reported, loads>>

\* Longest byte stream a reader holds.
MaxLen == 2
\* Number of load futures the host drives concurrently in SpecConc.
MaxLoads == 2
\* Number of times from_world is called on the world.
MaxFromWorld == 2

\* Option<T> is a sequence of at most one element.
None == <<>>
Some(v) == <<v>>

RECURSIVE Concat(_)
\* The concatenation of a sequence of strings.
Concat(s) == IF s = <<>> THEN "" ELSE Head(s) \o Concat(Tail(s))

Range(s) == {s[i] : i \in DOMAIN s}

(***************************************************************************)
(* Compile-time tables                                                     *)
(***************************************************************************)

\* The cargo features named by the #[cfg(feature = ...)] attributes.
Features ==
    {"basis-universal", "bmp", "png", "dds", "tga", "jpeg", "ktx2", "webp", "pnm"}

\* cfg_ext with the #[cfg] attribute left out.
cfg_ext_ungated(feature, ext) == <<ext>>

\* One entry of IMG_FILE_EXTENSIONS: present iff its feature is compiled in.
cfg_ext(feature, ext) == IF feature \in features THEN <<ext>> ELSE <<>>

IMG_FILE_EXTENSIONS ==
    cfg_ext("basis-universal", "basis") \o
    cfg_ext("bmp", "bmp") \o
    cfg_ext("png", "png") \o
    cfg_ext("dds", "dds") \o
    cfg_ext("tga", "tga") \o
    cfg_ext("jpeg", "jpg") \o
    cfg_ext("jpeg", "jpeg") \o
    cfg_ext("ktx2", "ktx2") \o
    cfg_ext("webp", "webp") \o
    cfg_ext("pnm", "pam") \o
    cfg_ext("pnm", "pbm") \o
    cfg_ext("pnm", "pgm") \o
    cfg_ext("pnm", "ppm")

\* disabled_ext! without its #[cfg(not(...))] attribute.
disabled_ext_ungated(feature, ext) ==
    <<[extension |-> ext, feature |-> feature]>>

\* The macro disabled_ext!: a record present iff the feature is NOT compiled in.
disabled_ext(feature, ext) ==
    IF feature \notin features
    THEN <<[extension |-> ext, feature |-> feature]>>
    ELSE <<>>

DISABLED_IMG_FILE_EXTENSIONS ==
    disabled_ext("basis-universal", "basis") \o
    disabled_ext("bmp", "bmp") \o
    disabled_ext("png", "png") \o
    disabled_ext("dds", "dds") \o
    disabled_ext("tga", "tga") \o
    disabled_ext("jpeg", "jpg") \o
    disabled_ext("jpeg", "jpeg") \o
    disabled_ext("ktx2", "ktx2") \o
    disabled_ext("webp", "webp") \o
    disabled_ext("pnm", "pam") \o
    disabled_ext("pnm", "pbm") \o
    disabled_ext("pnm", "pgm") \o
    disabled_ext("pnm", "ppm")

(***************************************************************************)
(* Settings                                                                *)
(***************************************************************************)

ImageFormats == {"Png", "Jpeg"}

\* enum ImageFormatSetting
ImageFormatSetting ==
    {<<"FromExtension">>} \cup {<<"Format", f>> : f \in ImageFormats}

\* struct ImageLoaderSettings
ImageLoaderSettings ==
    [format : ImageFormatSetting,
     is_srgb : BOOLEAN,
     sampler : {"Default", "Descriptor"},
     cpu_persistent_access : {"Keep", "Unload"}]

\* impl Default for ImageLoaderSettings
DefaultSettings ==
    [format |-> <<"FromExtension">>,
     is_srgb |-> TRUE,
     sampler |-> "Default",
     cpu_persistent_access |-> "Keep"]

(***************************************************************************)
(* Paths: a path is a sequence of OsStr units, each the separator "/", a   *)
(* ".", a piece of valid UTF-8 text holding neither, or a unit that is not *)
(* valid UTF-8.                                                            *)
(***************************************************************************)

BadUnit == "<FF>"
ReplacementChar == "<U+FFFD>"

RECURSIVE LastIndexOf(_, _)
\* The index of the last unit u of p, 0 when it has none.
LastIndexOf(p, u) ==
    IF p = <<>> THEN 0
    ELSE IF p[Len(p)] = u THEN Len(p)
    ELSE LastIndexOf(SubSeq(p, 1, Len(p) - 1), u)

\* The index of the last "." of a file name, 0 when it has none.
LastDot(f) == LastIndexOf(f, ".")

RECURSIVE file_name(_)
\* Path::file_name: the last component when it is a normal one. Trailing
\* separators and "." components after the first are skipped; the root, a
\* leading "." and ".." are no file name.
file_name(p) ==
    IF p = <<>> THEN None
    ELSE IF p[Len(p)] = "/"
    THEN IF Len(p) = 1 THEN None ELSE file_name(SubSeq(p, 1, Len(p) - 1))
    ELSE LET start == LastIndexOf(p, "/")
             last == SubSeq(p, start + 1, Len(p))
         IN  IF last = <<".">>
             THEN IF start = 0 THEN None ELSE file_name(SubSeq(p, 1, start))
             ELSE IF last = <<".", ".">> THEN None
             ELSE Some(last)

\* Path::extension: of the file name, the part after its last ".", None when
\* there is no file name, no "." in it or nothing before its last ".".
path_extension(p) ==
    LET f == file_name(p)
    IN  IF f = None THEN None
        ELSE IF LastDot(f[1]) <= 1 THEN None
        ELSE Some(SubSeq(f[1], LastDot(f[1]) + 1, Len(f[1])))

\* OsStr::to_str: the text, None when some unit is not valid UTF-8.
to_str(os) == IF BadUnit \in Range(os) THEN None ELSE Some(Concat(os))

\* Path::display: lossy, every invalid unit becomes the replacement character.
display(p) ==
    Concat([i \in DOMAIN p |-> IF p[i] = BadUnit THEN ReplacementChar ELSE p[i]])

(***************************************************************************)
(* The external decode, Image::from_buffer                                 *)
(***************************************************************************)

\* ImageFormat::from_extension
from_extension(e) ==
    IF e = "png" THEN Some("Png")
    ELSE IF e \in {"jpg", "jpeg"} THEN Some("Jpeg")
    ELSE None

\* The first byte of a stream of the format.
Magic(f) == IF f = "Png" THEN 137 ELSE 255

\* Image::from_buffer: <<"Ok", image>> or <<"Err", texture_error>>.
from_buffer(buffer, image_type, supported, is_srgb, sampler, usage) ==
    LET format == IF image_type[1] = "Format" THEN Some(image_type[2])
                  ELSE from_extension(image_type[2])
    IN  IF format = None
        THEN <<"Err", <<"InvalidImageExtension", image_type[2]>> >>
        ELSE IF buffer = <<>> \/ Head(buffer) # Magic(format[1])
        THEN <<"Err", <<"ImageError", format[1]>> >>
        ELSE <<"Ok", [format |-> format[1],
                      data |-> Tail(buffer),
                      is_srgb |-> is_srgb,
                      sampler |-> sampler,
                      asset_usage |-> usage]>>

\* wgpu features of a render device that matter to the loader.
DeviceFeatures ==
    {"TEXTURE_COMPRESSION_ASTC", "TEXTURE_COMPRESSION_BC", "TEXTURE_COMPRESSION_ETC2"}

\* CompressedImageFormats::NONE
NONE == {}

\* CompressedImageFormats::from_features
from_features(fs) ==
    (IF "TEXTURE_COMPRESSION_ASTC" \in fs THEN {"ASTC_LDR"} ELSE {}) \cup
    (IF "TEXTURE_COMPRESSION_BC" \in fs THEN {"BC"} ELSE {}) \cup
    (IF "TEXTURE_COMPRESSION_ETC2" \in fs THEN {"ETC2"} ELSE {})

(***************************************************************************)
(* Construction                                                            *)
(***************************************************************************)

\* supported_compressed_formats falling back to every format.
supported_compressed_formats_all(w) ==
    IF w.render_device # None
    THEN from_features(w.render_device[1])
    ELSE from_features(DeviceFeatures)

\* from_world, lines 157-161: the supported set, from the optional device.
supported_compressed_formats(w) ==
    IF w.render_device # None
    THEN from_features(w.render_device[1])
    ELSE NONE

\* extension_hint naming the extension in place of the feature.
extension_hint_ext(d) ==
    [extension |-> d.extension,
     hint |-> "enabling bevy feature '" \o d.extension \o "'"]

\* from_world, lines 165-168: the hint registered for one disabled record.
extension_hint(d) ==
    [extension |-> d.extension,
     hint |-> "enabling bevy feature '" \o d.feature \o "'"]

\* from_world, lines 163-170: the registrations made with the asset server.
registered_hints(w) ==
    IF w.asset_server
    THEN [i \in DOMAIN DISABLED_IMG_FILE_EXTENSIONS |->
             extension_hint(DISABLED_IMG_FILE_EXTENSIONS[i])]
    ELSE <<>>

\* impl FromWorld for ImageLoader
from_world ==
    /\ constructed < MaxFromWorld
    /\ constructed' = constructed + 1
    /\ loader' = Some([supported_compressed_formats |->
                          supported_compressed_formats(world)])
    /\ hints' = hints \o registered_hints(world)
    /\ UNCHANGED <<features, world, reported, loads>>

\* AssetLoader::extensions
extensions ==
    /\ loader # None
    /\ reported' = Some(IMG_FILE_EXTENSIONS)
    /\ UNCHANGED <<features, world, loader, constructed, hints, loads>>

(***************************************************************************)
(* Load                                                                    *)
(***************************************************************************)

\* A reader: its bytes, and where (if anywhere) reading them fails.
Bytes == {137, 255}

Streams == UNION {[1..n -> Bytes] : n \in 0..MaxLen}

IoErrors == {"NotFound", "UnexpectedEof"}

Readers ==
    {[content |-> c, fail_at |-> None, error |-> "none"] : c \in Streams}
    \cup
    UNION {{[content |-> c, fail_at |-> Some(k), error |-> e] :
               k \in 0..Len(c), e \in IoErrors} : c \in Streams}

\* A load future before its first poll.
NewLoad(path, settings, reader) ==
    [pc |-> "pending",
     path |-> path,
     settings |-> settings,
     reader |-> reader,
     ext |-> None,
     bytes |-> <<>>,
     read_calls |-> 0,
     decode_calls |-> <<>>,
     result |-> None]

\* Line 127: the two unwraps, then line 130 starts read_to_end.
begin_load(l) ==
    LET os == path_extension(l.path)
        ext == IF os = None THEN None ELSE to_str(os[1])
    IN  IF ext = None
        THEN [l EXCEPT !.pc = "done",
                       !.result = Some(<<"Panic", "called Option::unwrap() on a None value">>)]
        ELSE [l EXCEPT !.pc = "reading",
                       !.ext = ext,
                       !.bytes = <<>>,
                       !.read_calls = @ + 1]

\* How many bytes the reader yields before it ends or fails.
ReadLimit(r) == IF r.fail_at = None THEN Len(r.content) ELSE r.fail_at[1]

\* Lines 131-134: the image type.
image_type(l) ==
    IF l.settings.format[1] = "FromExtension"
    THEN <<"Extension", l.ext[1]>>
    ELSE <<"Format", l.settings.format[2]>>

\* decode_args passing the default colour space in place of the settings'.
decode_args_srgb(l, formats) ==
    [bytes |-> l.bytes,
     image_type |-> image_type(l),
     supported |-> formats,
     is_srgb |-> TRUE,
     sampler |-> l.settings.sampler,
     usage |-> l.settings.cpu_persistent_access]

\* Lines 135-142: the arguments of the call of Image::from_buffer.
decode_args(l, formats) ==
    [bytes |-> l.bytes,
     image_type |-> image_type(l),
     supported |-> formats,
     is_srgb |-> l.settings.is_srgb,
     sampler |-> l.settings.sampler,
     usage |-> l.settings.cpu_persistent_access]

\* file_texture_error carrying the extension in place of the path.
file_texture_error_ext(l, err) == [error |-> err, path |-> l.ext[1]]

\* Lines 143-146: map_err into FileTextureError.
file_texture_error(l, err) == [error |-> err, path |-> display(l.path)]

\* Lines 131-146: after the read, decode and wrap the outcome.
finish_load(l, formats) ==
    LET a == decode_args(l, formats)
        ret == from_buffer(a.bytes, a.image_type, a.supported,
                           a.is_srgb, a.sampler, a.usage)
    IN  [l EXCEPT !.pc = "done",
                  !.decode_calls = Append(@, [args |-> a, ret |-> ret]),
                  !.result = IF ret[1] = "Ok"
                             THEN Some(<<"Ok", ret[2]>>)
                             ELSE Some(<<"FileTexture", file_texture_error(l, ret[2])>>)]

\* fail_load swallowing the I/O error and decoding what was read.
fail_load_swallowed(l) ==
    finish_load(l, loader[1].supported_compressed_formats)

\* Line 130, the ? operator: an I/O error ends the load.
fail_load(l) ==
    [l EXCEPT !.pc = "done",
              !.result = Some(<<"Io", l.reader.error>>)]

\* First poll of the future: runs to the await of read_to_end.
LoadBegin(i) ==
    /\ loader # None
    /\ loads[i].pc = "pending"
    /\ loads' = [loads EXCEPT ![i] = begin_load(loads[i])]
    /\ UNCHANGED <<features, world, loader, constructed, hints, reported>>

\* read_to_end receives some more bytes and stays suspended.
LoadRead(i) ==
    /\ loads[i].pc = "reading"
    /\ \E n \in 1..MaxLen :
          /\ Len(loads[i].bytes) + n <= ReadLimit(loads[i].reader)
          /\ loads' = [loads EXCEPT ![i].bytes =
                          @ \o SubSeq(loads[i].reader.content, Len(@) + 1, Len(@) + n)]
    /\ UNCHANGED <<features, world, loader, constructed, hints, reported>>

\* read_to_end resolves to Err: load returns through the ? operator.
LoadReadErr(i) ==
    /\ loads[i].pc = "reading"
    /\ loads[i].reader.fail_at # None
    /\ Len(loads[i].bytes) = ReadLimit(loads[i].reader)
    /\ loads' = [loads EXCEPT ![i] = fail_load(loads[i])]
    /\ UNCHANGED <<features, world, loader, constructed, hints, reported>>

\* LoadFinish reporting the path of the first load, as if the path were shared.
LoadFinish_shared(i) ==
    /\ loads[i].pc = "reading"
    /\ loads[i].reader.fail_at = None
    /\ Len(loads[i].bytes) = Len(loads[i].reader.content)
    /\ loads' = [loads EXCEPT ![i] =
                    [finish_load([loads[i] EXCEPT !.path = loads[1].path],
                                 loader[1].supported_compressed_formats)
                        EXCEPT !.path = loads[i].path]]
    /\ UNCHANGED <<features, world, loader, constructed, hints, reported>>

\* read_to_end resolves to Ok at the end of the stream: load runs to its end.
LoadFinish(i) ==
    /\ loads[i].pc = "reading"
    /\ loads[i].reader.fail_at = None
    /\ Len(loads[i].bytes) = Len(loads[i].reader.content)
    /\ loads' = [loads EXCEPT ![i] =
                    finish_load(loads[i], loader[1].supported_compressed_formats)]
    /\ UNCHANGED <<features, world, loader, constructed, hints, reported>>

Next ==
    \/ from_world
    \/ extensions
    \/ \E i \in DOMAIN loads : LoadBegin(i)
    \/ \E i \in DOMAIN loads : LoadRead(i)
    \/ \E i \in DOMAIN loads : LoadReadErr(i)
    \/ \E i \in DOMAIN loads : LoadFinish(i)

(***************************************************************************)
(* Specifications                                                          *)
(***************************************************************************)

Worlds ==
    [render_device : {None} \cup {Some(fs) : fs \in SUBSET DeviceFeatures},
     asset_server : BOOLEAN]

\* Asset paths: with and without an extension, hidden, not valid UTF-8, in
\* a directory, with a trailing separator, and "..".
Paths ==
    {<<"a", ".", "png">>, <<"a", ".", "jpg">>, <<"a", ".", "txt">>,
     <<"a">>, <<".", "png">>, <<"a", ".", BadUnit>>, <<BadUnit, ".", "png">>,
     <<"d", "/", "a", ".", "png">>, <<"d", ".", "x", "/", "a">>,
     <<"a", ".", "png", "/">>, <<".", ".">>}

\* Settings of every format choice, with the default and other values of the
\* colour space, the sampler and the retention policy.
LoadSettings ==
    {s \in ImageLoaderSettings :
        (s.sampler = "Default") = (s.cpu_persistent_access = "Keep")}

\* Worlds without a render device, and with devices of no, some and all of
\* the compression features.
CtorWorlds ==
    {w \in Worlds :
        w.render_device \in
            {None, Some({}), Some({"TEXTURE_COMPRESSION_BC"}),
             Some({"TEXTURE_COMPRESSION_ASTC", "TEXTURE_COMPRESSION_ETC2"}),
             Some(DeviceFeatures)}}

InitCommon ==
    /\ loader = None
    /\ constructed = 0
    /\ hints = <<>>
    /\ reported = None

\* One load, of any path, settings and reader, in a fixed build.
Init ==
    /\ InitCommon
    /\ features \in {{"png", "ktx2"}}
    /\ world \in {w \in Worlds :
                     /\ w.render_device \in {None, Some({"TEXTURE_COMPRESSION_BC"})}
                     /\ w.asset_server}
    /\ \E p \in Paths, s \in LoadSettings, r \in Readers :
          loads = <<NewLoad(p, s, r)>>

Spec == Init /\ [][Next]_vars

CtorReaders ==
    {[content |-> <<137>>, fail_at |-> None, error |-> "none"],
     [content |-> <<137>>, fail_at |-> Some(1), error |-> "UnexpectedEof"]}

\* Every build and every world, with one load of a PNG file.
InitCtor ==
    /\ InitCommon
    /\ features \in SUBSET Features
    /\ world \in CtorWorlds
    /\ \E r \in CtorReaders :
          loads = <<NewLoad(<<"a", ".", "png">>, DefaultSettings, r)>>

SpecCtor == InitCtor /\ [][Next]_vars

ExplicitPng ==
    [format |-> <<"Format", "Png">>,
     is_srgb |-> FALSE,
     sampler |-> "Descriptor",
     cpu_persistent_access |-> "Unload"]

ConcPaths ==
    {<<"a", ".", "png">>, <<"d", "/", "b", ".", "jpg">>, <<"b", ".", BadUnit>>}

ConcReaders ==
    {[content |-> <<255>>, fail_at |-> None, error |-> "none"],
     [content |-> <<137>>, fail_at |-> Some(0), error |-> "NotFound"]}

\* MaxLoads loads driven concurrently on one loader.
InitConc ==
    /\ InitCommon
    /\ features \in {{"png", "ktx2"}}
    /\ world \in {w \in Worlds :
                     /\ w.render_device = Some({"TEXTURE_COMPRESSION_BC"})
                     /\ w.asset_server}
    /\ loads \in [1..MaxLoads ->
                     {NewLoad(p, s, r) : p \in ConcPaths,
                                         s \in {DefaultSettings, ExplicitPng},
                                         r \in ConcReaders}]

SpecConc == InitConc /\ [][Next]_vars

(***************************************************************************)
(* Properties                                                              *)
(***************************************************************************)

Done(l) == l.pc = "done"
Kind(l) == l.result[1][1]
\* The read of the load has succeeded: read_to_end was called and met the end.
ReadOk(l) ==
    /\ l.read_calls = 1
    /\ l.reader.fail_at = None
    /\ Done(l)

\* The fixed table of extensions and the feature that gates each.
FixedTable ==
    [basis |-> "basis-universal", bmp |-> "bmp", png |-> "png", dds |-> "dds",
     tga |-> "tga", jpg |-> "jpeg", jpeg |-> "jpeg", ktx2 |-> "ktx2",
     webp |-> "webp", pam |-> "pnm", pbm |-> "pnm", pgm |-> "pnm", ppm |-> "pnm"]
FixedExtensions == DOMAIN FixedTable
Occurrences(s, e) == Cardinality({i \in DOMAIN s : s[i] = e})

\* C1: every finished load has ended in Ok, Err(Io) or Err(FileTexture), for
\* any path (without an extension or with one that is not valid UTF-8
\* included), any settings and any reader.
C1_LoadEndsInTypedResult ==
    \A i \in DOMAIN loads :
        Done(loads[i]) => Kind(loads[i]) \in {"Ok", "Io", "FileTexture"}

\* C2: with an explicit format f the decoder is called with Format(f), and
\* two loads of the same bytes and settings end alike whatever extension
\* their paths carry; with FromExtension the decoder is called with
\* Extension(e), e the extension of the path.
C2_ExplicitFormatIgnoresExtension ==
    /\ \A i \in DOMAIN loads : \A k \in DOMAIN loads[i].decode_calls :
          loads[i].decode_calls[k].args.image_type =
              IF loads[i].settings.format[1] = "Format"
              THEN <<"Format", loads[i].settings.format[2]>>
              ELSE <<"Extension", to_str(path_extension(loads[i].path)[1])[1]>>
    /\ \A i, j \in DOMAIN loads :
          (/\ Done(loads[i]) /\ Done(loads[j])
           /\ path_extension(loads[i].path) # None
           /\ path_extension(loads[j].path) # None
           /\ loads[i].settings.format[1] = "Format"
           /\ loads[i].settings = loads[j].settings
           /\ loads[i].reader = loads[j].reader)
          => /\ Kind(loads[i]) = Kind(loads[j])
             /\ Kind(loads[i]) = "Ok" => loads[i].result = loads[j].result

\* C3: when the read succeeded and the decode returned an error, the load
\* returned Err(FileTexture) carrying that error and the display form of the
\* path of this load.
C3_DecodeFailureIsFileTexture ==
    \A i \in DOMAIN loads : \A k \in DOMAIN loads[i].decode_calls :
        loads[i].decode_calls[k].ret[1] = "Err" =>
            loads[i].result =
                Some(<<"FileTexture",
                       [error |-> loads[i].decode_calls[k].ret[2],
                        path |-> display(loads[i].path)]>>)

C3_Witness ==
    \E i \in DOMAIN loads :
        /\ Done(loads[i])
        /\ BadUnit \in Range(loads[i].path)
        /\ Kind(loads[i]) = "FileTexture"
        /\ loads[i].decode_calls # <<>>

\* C4: the reader is read once, the decode is called only after the whole
\* stream was read, and a failed read ends the load in Err(Io) carrying the
\* reader's error, with no decode and no FileTexture error.
C4_ReadBeforeDecode ==
    \A i \in DOMAIN loads :
        /\ loads[i].read_calls <= 1
        /\ loads[i].decode_calls # <<>> =>
              /\ loads[i].read_calls = 1
              /\ loads[i].reader.fail_at = None
              /\ loads[i].bytes = loads[i].reader.content
        /\ (Done(loads[i]) /\ loads[i].read_calls = 1
                /\ loads[i].reader.fail_at # None) =>
              /\ loads[i].result = Some(<<"Io", loads[i].reader.error>>)
              /\ loads[i].decode_calls = <<>>

C4_Witness ==
    \E i \in DOMAIN loads :
        /\ Done(loads[i])
        /\ Kind(loads[i]) = "Io"
        /\ loads[i].reader.fail_at # None
        /\ Len(loads[i].bytes) >= 1

\* C5: extensions() returns exactly the extensions of the fixed table whose
\* feature is compiled in, in every build.
C5_ExtensionsAreEnabledSubset ==
    reported # None =>
        /\ Range(reported[1]) \subseteq FixedExtensions
        /\ \A e \in FixedExtensions :
              e \in Range(reported[1]) <=> FixedTable[e] \in features

C5_Witness ==
    /\ reported # None
    /\ "jpeg" \in features
    /\ "pnm" \notin features
    /\ reported[1] # <<>>

\* C6: no hint is ever registered for an extension extensions() reports, and
\* without an asset server construction completes with no hint registered.
C6_HintsOnlyForDisabled ==
    /\ \A k \in DOMAIN hints :
          /\ hints[k].extension \notin Range(IMG_FILE_EXTENSIONS)
          /\ hints[k].extension \in FixedExtensions
          /\ FixedTable[hints[k].extension] \notin features
    /\ ~world.asset_server => hints = <<>>

C6_Witness ==
    /\ loader # None
    /\ world.asset_server
    /\ hints # <<>>
    /\ IMG_FILE_EXTENSIONS # <<>>

\* C7: a loader built without a render device supports no compressed format;
\* with a device it supports the formats derived from the device's features.
C7_NoDeviceMeansNone ==
    loader # None =>
        loader[1].supported_compressed_formats =
            IF world.render_device = None
            THEN {}
            ELSE from_features(world.render_device[1])

C7_Witness ==
    /\ loader # None
    /\ world.render_device = None

\* The result of a load run alone, from its first poll to its end.
LoadAlone(path, settings, reader, formats) ==
    LET begun == begin_load(NewLoad(path, settings, reader))
    IN  IF Done(begun) THEN begun.result
        ELSE IF reader.fail_at # None THEN fail_load(begun).result
        ELSE finish_load([begun EXCEPT !.bytes = reader.content], formats).result

\* C8: loads interleaved on one loader are independent: each ends as it would
\* alone, and the loader's supported set stays the one fixed at construction.
C8_ConcurrentLoadsIndependent ==
    /\ loader # None =>
          loader[1].supported_compressed_formats =
              supported_compressed_formats(world)
    /\ \A i \in DOMAIN loads :
          Done(loads[i]) =>
              /\ loads[i].result =
                    LoadAlone(loads[i].path, loads[i].settings, loads[i].reader,
                              supported_compressed_formats(world))
              /\ Kind(loads[i]) = "FileTexture" =>
                    loads[i].result[1][2].path = display(loads[i].path)

C8_Witness ==
    \E i, j \in DOMAIN loads :
        /\ Done(loads[i]) /\ Done(loads[j])
        /\ Kind(loads[i]) = "FileTexture" /\ Kind(loads[j]) = "FileTexture"
        /\ loads[i].path # loads[j].path

\* The decode calls of every load, and what the load made of an Ok.
DecodeCalls ==
    \A i \in DOMAIN loads :
        /\ Len(loads[i].decode_calls) <= 1
        /\ ReadOk(loads[i]) =>
              /\ Len(loads[i].decode_calls) = 1
              /\ loads[i].decode_calls[1].args =
                    [bytes |-> loads[i].reader.content,
                     image_type |->
                        IF loads[i].settings.format[1] = "Format"
                        THEN <<"Format", loads[i].settings.format[2]>>
                        ELSE <<"Extension", loads[i].ext[1]>>,
                     supported |-> loader[1].supported_compressed_formats,
                     is_srgb |-> loads[i].settings.is_srgb,
                     sampler |-> loads[i].settings.sampler,
                     usage |-> loads[i].settings.cpu_persistent_access]
              /\ loads[i].decode_calls[1].ret[1] = "Ok" =>
                    loads[i].result = Some(<<"Ok", loads[i].decode_calls[1].ret[2]>>)

\* C9: after a successful read the decode is called exactly once, with the
\* whole stream, the resolved type, the loader's supported set and the
\* settings' is_srgb, sampler and cpu_persistent_access; Ok returns the image
\* the decode produced; and no step of a load changes its settings.
C9_DecodeArguments ==
    /\ []DecodeCalls
    /\ [][\A i \in DOMAIN loads : loads'[i].settings = loads[i].settings]_vars

C9_Witness ==
    \E i \in DOMAIN loads :
        /\ ReadOk(loads[i])
        /\ Kind(loads[i]) = "Ok"
        /\ Len(loads[i].reader.content) = MaxLen
        /\ ~loads[i].settings.is_srgb
        /\ loads[i].settings.sampler = "Descriptor"
        /\ loads[i].settings.cpu_persistent_access = "Unload"
        /\ loader[1].supported_compressed_formats # {}

\* C10: in every build the enabled and the disabled list partition the fixed
\* table, extensions sharing a feature fall on the same side, every disabled
\* record names the feature gating its extension, and with an asset server
\* every call of from_world registers exactly one hint, naming that feature,
\* for every extension extensions() does not report.
C10_TablesPartition ==
    LET disabled == [k \in DOMAIN DISABLED_IMG_FILE_EXTENSIONS |->
                        DISABLED_IMG_FILE_EXTENSIONS[k].extension]
        hinted == [k \in DOMAIN hints |-> hints[k].extension]
    IN  /\ Range(IMG_FILE_EXTENSIONS) \cup Range(disabled) = FixedExtensions
        /\ \A e \in FixedExtensions :
              Occurrences(IMG_FILE_EXTENSIONS, e) + Occurrences(disabled, e) = 1
        /\ \A e, f \in FixedExtensions :
              FixedTable[e] = FixedTable[f] =>
                  (e \in Range(disabled) <=> f \in Range(disabled))
        /\ \A k \in DOMAIN DISABLED_IMG_FILE_EXTENSIONS :
              DISABLED_IMG_FILE_EXTENSIONS[k].feature =
                  FixedTable[DISABLED_IMG_FILE_EXTENSIONS[k].extension]
        /\ world.asset_server =>
              \A e \in FixedExtensions :
                  IF e \in Range(IMG_FILE_EXTENSIONS)
                  THEN Occurrences(hinted, e) = 0
                  ELSE /\ Occurrences(hinted, e) = constructed
                       /\ \A k \in DOMAIN hints :
                             hints[k].extension = e =>
                                 hints[k].hint =
                                     "enabling bevy feature '" \o FixedTable[e] \o "'"

C10_Witness ==
    /\ loader # None
    /\ constructed > 1
    /\ world.asset_server
    /\ "jpeg" \notin features
    /\ "basis-universal" \notin features
    /\ "png" \in features

====
